---- MODULE Spec2Model ----
(***************************************************************************)
(* A model of the livestock project filter: the text normaliser, the       *)
(* keyword matcher, the three-strategy project extractor, the record       *)
(* enricher, process_single_pdf and the batch loop of main.                *)
(*                                                                         *)
(* A string is a sequence of characters; a character is a TLA+ string      *)
(* holding either the character itself or, for a character outside ASCII,  *)
(* its code point ("U+00E9").                                              *)
(***************************************************************************)
EXTENDS Integers, Sequences, FiniteSets, TLC

VARIABLES
    pc,               \* position of the caller in the operation under study
    keywords_file,    \* the keyword source: whether it exists, and its lines
    keywords,         \* LivestockProjectFilter.keywords
    text,             \* argument of _normalize_text / find_keywords_in_text
    result,           \* value returned by the first call
    result2,          \* value returned by the second call
    doc_text,         \* argument pdf_text of parse_pdf_to_dataframe
    doc_name,         \* argument pdf_filename of parse_pdf_to_dataframe
    parsed,           \* what parse_pdf_to_dataframe did and returned
    pdf_files,        \* the documents found by main, or the one handed over
    idx,              \* main: number of documents the loop has gone through
    processed_count,  \* main: processed_count
    attempted,        \* the documents handed to process_single_pdf, in order
    returned,         \* how each of these calls ended
    processed_df,     \* what the last process_dataframe returned
    outputs           \* the documents whose CSV and Excel files were written

vars == <<pc, keywords_file, keywords, text, result, result2, doc_text, doc_name,
          parsed, pdf_files, idx, processed_count, attempted, returned,
          processed_df, outputs>>

(***************************************************************************)
(* Characters                                                              *)
(***************************************************************************)
SP     == " "
NL     == "\n"
NBSP   == "U+00A0"    \* no-break space
FIGSP  == "U+2007"    \* figure space
THINSP == "U+2009"    \* thin space
HAIRSP == "U+200A"    \* hair space
EACUTE == "U+00E9"    \* e with acute, composed
ACUTE  == "U+00B4"    \* spacing acute accent
CACUTE == "U+0301"    \* combining acute accent, combining class 230
CCEDIL == "U+0327"    \* combining cedilla, combining class 202
CTILDE == "U+0303"    \* combining tilde, combining class 230
ATILDE == "U+00C3"    \* A with tilde, composed
LATILDE == "U+00E3"   \* a with tilde, composed
SUP3   == "U+00B3"    \* superscript three

LowerLetters == <<"a","b","c","d","e","f","g","h","i","j","k","l","m",
                  "n","o","p","q","r","s","t","u","v","w","x","y","z">>
UpperLetters == <<"A","B","C","D","E","F","G","H","I","J","K","L","M",
                  "N","O","P","Q","R","S","T","U","V","W","X","Y","Z">>
Digits == {"0","1","2","3","4","5","6","7","8","9"}

Range(s) == {s[i] : i \in DOMAIN s}

\* str.isspace / the regular expression class \s (the same set in Python 3)
IsSpace(c) == c \in {SP, NL, "\t", NBSP, FIGSP, THINSP, HAIRSP}

\* the regular expression class \w: alphanumeric or underscore
IsWord(c) ==
    \/ c \in Range(LowerLetters) \/ c \in Range(UpperLetters) \/ c \in Digits
    \/ c \in {"_", EACUTE, ATILDE, LATILDE, SUP3}

\* str.lower, one character
LowerChar(c) ==
    IF c \in Range(UpperLetters)
    THEN LowerLetters[CHOOSE i \in 1..26 : UpperLetters[i] = c]
    ELSE IF c = ATILDE THEN LATILDE ELSE c

\* str.lower
Lower(s) == [i \in DOMAIN s |-> LowerChar(s[i])]

\* str.strip
Strip(s) ==
    IF \A i \in DOMAIN s : IsSpace(s[i]) THEN <<>>
    ELSE LET lo == CHOOSE i \in DOMAIN s :
                      ~IsSpace(s[i]) /\ \A j \in 1..(i-1) : IsSpace(s[j])
             hi == CHOOSE i \in DOMAIN s :
                      ~IsSpace(s[i]) /\ \A j \in (i+1)..Len(s) : IsSpace(s[j])
         IN SubSeq(s, lo, hi)

\* pattern in s
Contains(s, pattern) ==
    \E i \in 1..(Len(s) - Len(pattern) + 1) :
        \A k \in 1..Len(pattern) : s[i + k - 1] = pattern[k]

(***************************************************************************)
(* TextNormalizer: LivestockProjectFilter._normalize_text                  *)
(***************************************************************************)
\* pandas' missing value, what a row holds in a column its record lacks
NaN == <<"NaN">>

\* the compatibility decomposition of one character
Decomp(c) ==
    CASE c \in {NBSP, FIGSP, THINSP, HAIRSP} -> <<SP>>
      [] c = EACUTE  -> <<"e", CACUTE>>
      [] c = ACUTE   -> <<SP, CACUTE>>
      [] c = ATILDE  -> <<"A", CTILDE>>
      [] c = LATILDE -> <<"a", CTILDE>>
      [] c = SUP3    -> <<"3">>
      [] OTHER       -> <<c>>

\* canonical combining class
CCC(c) == CASE c = CCEDIL -> 202 [] c \in {CACUTE, CTILDE} -> 230 [] OTHER -> 0

RECURSIVE DecompRange(_, _, _)
DecompRange(s, lo, hi) ==
    IF lo > hi THEN <<>>
    ELSE IF lo = hi THEN Decomp(s[lo])
    ELSE LET mid == (lo + hi) \div 2
         IN DecompRange(s, lo, mid) \o DecompRange(s, mid + 1, hi)

\* canonical ordering: combining marks after one base sorted by class, stably
RECURSIVE CanonicalOrder(_)
CanonicalOrder(s) ==
    IF \E i \in 1..(Len(s) - 1) : CCC(s[i + 1]) > 0 /\ CCC(s[i]) > CCC(s[i + 1])
    THEN LET i == CHOOSE k \in 1..(Len(s) - 1) :
                      CCC(s[k + 1]) > 0 /\ CCC(s[k]) > CCC(s[k + 1])
         IN CanonicalOrder([s EXCEPT ![i] = s[i + 1], ![i + 1] = s[i]])
    ELSE s

\* unicodedata.normalize('NFKD', text)
NFKD(s) == CanonicalOrder(DecompRange(s, 1, Len(s)))

\* text.replace(c, ' ') for the four spaces of lines 57-60
ReplaceSpaces(s) ==
    [i \in DOMAIN s |-> IF s[i] \in {NBSP, FIGSP, THINSP, HAIRSP} THEN SP ELSE s[i]]

RECURSIVE CollapseRange(_, _, _)
CollapseRange(s, lo, hi) ==
    IF lo > hi THEN <<>>
    ELSE IF lo = hi
         THEN IF ~IsSpace(s[lo]) THEN <<s[lo]>>
              ELSE IF lo > 1 /\ IsSpace(s[lo - 1]) THEN <<>> ELSE <<SP>>
    ELSE LET mid == (lo + hi) \div 2
         IN CollapseRange(s, lo, mid) \o CollapseRange(s, mid + 1, hi)

\* re.sub(r' +', ' ', text): only runs of the ordinary space collapse
RECURSIVE CollapseSpacesOnlyRange(_, _, _)
CollapseSpacesOnlyRange(s, lo, hi) ==
    IF lo > hi THEN <<>>
    ELSE IF lo = hi
         THEN IF s[lo] = SP /\ lo > 1 /\ s[lo - 1] = SP THEN <<>> ELSE <<s[lo]>>
    ELSE LET mid == (lo + hi) \div 2
         IN CollapseSpacesOnlyRange(s, lo, mid) \o CollapseSpacesOnlyRange(s, mid + 1, hi)

CollapseSpacesOnly(s) == CollapseSpacesOnlyRange(s, 1, Len(s))

\* re.sub(r'\s+', ' ', text)
CollapseWhitespace(s) == CollapseRange(s, 1, Len(s))

_normalize_text(t) ==
    IF t = NaN THEN <<>>
    ELSE Strip(CollapseWhitespace(ReplaceSpaces(NFKD(t))))

(***************************************************************************)
(* KeywordMatcher: _load_keywords, _compile_patterns, find_keywords_in_text *)
(***************************************************************************)
\* the keyword source when the file does not exist
AbsentFile == [exists |-> FALSE, lines |-> <<>>]

File(lines) == [exists |-> TRUE, lines |-> lines]

NonBlank(line) == Strip(line) # <<>>

StripLower(line) == Lower(Strip(line))

\* [line.strip().lower() for line in f if line.strip()], [] when not found
_load_keywords(file) ==
    IF ~file.exists THEN <<>>
    ELSE LET kept == SelectSeq(file.lines, NonBlank)
         IN [i \in DOMAIN kept |-> StripLower(kept[i])]

\* re.compile(r'\b' + re.escape(keyword) + r'\b', re.IGNORECASE)
_compile_patterns(kws) ==
    [i \in DOMAIN kws |-> [literal |-> kws[i], ignorecase |-> TRUE]]

\* \b at the position before s[p] (p = Len(s) + 1: the end of the string)
WordBoundary(s, p) ==
    (p > 1 /\ IsWord(s[p - 1])) # (p <= Len(s) /\ IsWord(s[p]))

LiteralAt(s, i, pattern) ==
    \A k \in 1..Len(pattern.literal) :
        IF pattern.ignorecase
        THEN LowerChar(s[i + k - 1]) = LowerChar(pattern.literal[k])
        ELSE s[i + k - 1] = pattern.literal[k]

\* pattern.search(s)
PatternSearch(pattern, s) ==
    \E i \in 1..(Len(s) - Len(pattern.literal) + 1) :
        /\ WordBoundary(s, i)
        /\ LiteralAt(s, i, pattern)
        /\ WordBoundary(s, i + Len(pattern.literal))

\* the found keywords returned as they are
KeepDuplicates(s) == s

\* list(dict.fromkeys(s))
RECURSIVE RemoveDuplicates(_)
RemoveDuplicates(s) ==
    IF s = <<>> THEN <<>>
    ELSE LET front == RemoveDuplicates(SubSeq(s, 1, Len(s) - 1))
         IN IF s[Len(s)] \in Range(front) THEN front ELSE Append(front, s[Len(s)])

\* the loop of lines 78-81 from pattern i on
RECURSIVE FoundFrom(_, _, _, _)
FoundFrom(kws, patterns, normalized_text, i) ==
    IF i > Len(patterns) THEN <<>>
    ELSE (IF PatternSearch(patterns[i], normalized_text) THEN <<kws[i]>> ELSE <<>>)
         \o FoundFrom(kws, patterns, normalized_text, i + 1)

find_keywords_in_text(kws, t) ==
    IF t = <<>> THEN <<>>
    ELSE RemoveDuplicates(FoundFrom(kws, _compile_patterns(kws), _normalize_text(t), 1))

(***************************************************************************)
(* ProjectExtractor: parse_pdf_to_dataframe                                *)
(***************************************************************************)
MinLineLen  == 50      \* a line longer than this is substantial
MinChunkLen == 100     \* a chunk whose joined text is longer than this is kept
MaxChunks   == 10      \* chunks[:10]
TitleLen    == 100     \* sentences[0].strip()[:100]
FallbackLen == 2000    \* pdf_text[:2000]

NamePatterns ==
    {<<"p","r","o","j","e","c","t",":">>,
     <<"p","r","o","j","e","c","t",SP,"n","a","m","e",":">>,
     <<"t","i","t","l","e",":">>,
     <<"n","o","m","b","r","e",SP,"d","e","l",SP,"p","r","o","y","e","c","t","o",":">>}
DescriptionPatterns ==
    {<<"d","e","s","c","r","i","p","t","i","o","n",":">>,
     <<"p","r","o","j","e","c","t",SP,"d","e","s","c","r","i","p","t","i","o","n",":">>,
     <<"s","u","m","m","a","r","y",":">>,
     <<"d","e","s","c","r","i","p","c","i",ATILDE,SUP3,"n",":">>}
StopWords ==
    {<<"p","r","o","j","e","c","t",":">>,
     <<"t","i","t","l","e",":">>,
     <<"b","u","d","g","e","t",":">>,
     <<"c","o","s","t",":">>,
     <<"d","a","t","e",":">>}
PROJECT == <<"p","r","o","j","e","c","t">>
NAME    == <<"n","a","m","e">>
TITLE   == <<"t","i","t","l","e">>

ProjectName        == "Project Name"
ProjectDescription == "Project Description"
EmptyDict == <<>>

Min(a, b) == IF a < b THEN a ELSE b

\* s[:n]
Prefix(s, n) == SubSeq(s, 1, Min(n, Len(s)))

\* the index of the first c in s at or after from, 0 when there is none
IndexFrom(s, c, from) ==
    IF \E i \in from..Len(s) : s[i] = c
    THEN CHOOSE i \in from..Len(s) : s[i] = c /\ \A j \in from..(i - 1) : s[j] # c
    ELSE 0

\* s[from:].split(sep)
RECURSIVE SplitFrom(_, _, _)
SplitFrom(s, sep, from) ==
    LET i == IndexFrom(s, sep, from)
    IN IF i = 0 THEN <<SubSeq(s, from, Len(s))>>
       ELSE <<SubSeq(s, from, i - 1)>> \o SplitFrom(s, sep, i + 1)

\* s.split(sep)
Split(s, sep) == SplitFrom(s, sep, 1)

\* ' '.join(parts), and ', '.join(parts)
RECURSIVE Join(_, _)
Join(parts, sep) ==
    IF parts = <<>> THEN <<>>
    ELSE IF Len(parts) = 1 THEN parts[1]
    ELSE Join(SubSeq(parts, 1, Len(parts) - 1), sep) \o sep \o parts[Len(parts)]

\* [line.strip() for line in pdf_text.split('\n') if line.strip()]
Lines(pdf_text) ==
    LET kept == SelectSeq(Split(pdf_text, NL), NonBlank)
    IN [i \in DOMAIN kept |-> Strip(kept[i])]

\* any(pattern in line.lower() for pattern in patterns)
AnyIn(patterns, line) == \E p \in patterns : Contains(Lower(line), p)

\* line.split(':', 1)[1].strip() if ':' in line else line.strip()
AfterColon(line) ==
    IF ":" \in Range(line)
    THEN Strip(SubSeq(line, IndexFrom(line, ":", 1) + 1, Len(line)))
    ELSE Strip(line)

\* the look-ahead loop of lines 150-154, from lines[j] on (j counted from 1)
RECURSIVE Continuation(_, _, _)
Continuation(lines, j, desc) ==
    IF j <= Len(lines) /\ ~AnyIn(StopWords, lines[j])
    THEN Continuation(lines, j + 1,
                      IF Strip(lines[j]) # <<>>
                      THEN desc \o <<SP>> \o Strip(lines[j]) ELSE desc)
    ELSE desc

\* a name-label line that opens its record without appending the open one
ForgetPrevious(projects, current_project) == projects

\* if current_project: projects.append(current_project)
ClosePrevious(projects, current_project) ==
    IF current_project # EmptyDict THEN Append(projects, current_project) ELSE projects

\* a description-label line that adds its text to the description already held
ExtendDescription(current_project, desc) ==
    (ProjectDescription :>
        IF ProjectDescription \in DOMAIN current_project
        THEN current_project[ProjectDescription] \o <<SP>> \o desc ELSE desc)
        @@ current_project

\* current_project['Project Description'] = desc
SetDescription(current_project, desc) ==
    (ProjectDescription :> desc) @@ current_project

\* the loop of lines 138-155 from lines[i] on, then lines 158-159
RECURSIVE Strategy1From(_, _, _, _)
Strategy1From(lines, i, projects, current_project) ==
    IF i > Len(lines)
    THEN IF current_project # EmptyDict
         THEN Append(projects, current_project) ELSE projects
    ELSE IF AnyIn(NamePatterns, lines[i])
         THEN Strategy1From(lines, i + 1,
                            ClosePrevious(projects, current_project),
                            ProjectName :> AfterColon(lines[i]))
    ELSE IF AnyIn(DescriptionPatterns, lines[i]) /\ current_project # EmptyDict
         THEN Strategy1From(lines, i + 1, projects,
                            SetDescription(current_project,
                                Continuation(lines, i + 1, AfterColon(lines[i]))))
    ELSE Strategy1From(lines, i + 1, projects, current_project)

\* Strategy 1: labelled fields
Strategy1(lines) == Strategy1From(lines, 1, <<>>, EmptyDict)

IsHeader(line) ==
    /\ Contains(Lower(line), PROJECT)
    /\ Contains(Lower(line), NAME) \/ Contains(Lower(line), TITLE)

\* the search for the header without its break: the last header line wins
LastHeaderLine(lines) ==
    IF \E i \in DOMAIN lines : IsHeader(lines[i])
    THEN CHOOSE i \in DOMAIN lines :
             IsHeader(lines[i]) /\ \A j \in (i + 1)..Len(lines) : ~IsHeader(lines[j])
    ELSE 0

\* lines 166-170, counted from 1: 0 when no line is a header
HeaderLine(lines) ==
    IF \E i \in DOMAIN lines : IsHeader(lines[i])
    THEN CHOOSE i \in DOMAIN lines :
             IsHeader(lines[i]) /\ \A j \in 1..(i - 1) : ~IsHeader(lines[j])
    ELSE 0

\* line.split(None, 1) of a stripped line holding whitespace
SplitOnce(line) ==
    LET ws   == CHOOSE i \in DOMAIN line :
                    IsSpace(line[i]) /\ \A j \in 1..(i - 1) : ~IsSpace(line[j])
        rest == CHOOSE i \in DOMAIN line :
                    i > ws /\ ~IsSpace(line[i]) /\ \A j \in ws..(i - 1) : IsSpace(line[j])
    IN <<SubSeq(line, 1, ws - 1), SubSeq(line, rest, Len(line))>>

\* len(line.split()) >= 2, for a stripped line
HasTwoTokens(line) == \E i \in DOMAIN line : IsSpace(line[i])

RECURSIVE TableRowsFrom(_, _)
TableRowsFrom(lines, i) ==
    IF i > Len(lines) THEN <<>>
    ELSE (IF lines[i] # <<>> /\ HasTwoTokens(lines[i])
          THEN <<(ProjectName :> SplitOnce(lines[i])[1])
                    @@ (ProjectDescription :> SplitOnce(lines[i])[2])>>
          ELSE <<>>)
         \o TableRowsFrom(lines, i + 1)

\* Strategy 2: table-like parsing
Strategy2(lines) ==
    IF HeaderLine(lines) # 0 THEN TableRowsFrom(lines, HeaderLine(lines) + 1) ELSE <<>>

\* a chunk kept from a joined length of MinChunkLen on
KeptChunkAtLeast(current_chunk) ==
    IF Len(Join(current_chunk, <<SP>>)) >= MinChunkLen
    THEN <<Join(current_chunk, <<SP>>)>> ELSE <<>>

\* lines 195-196 and 200-201
KeptChunk(current_chunk) ==
    IF Len(Join(current_chunk, <<SP>>)) > MinChunkLen
    THEN <<Join(current_chunk, <<SP>>)>> ELSE <<>>

\* the loop of lines 191-197 from lines[i] on, then lines 200-201
RECURSIVE ChunksFrom(_, _, _, _)
ChunksFrom(lines, i, chunks, current_chunk) ==
    IF i > Len(lines)
    THEN IF current_chunk # <<>> THEN chunks \o KeptChunk(current_chunk) ELSE chunks
    ELSE IF Len(lines[i]) > MinLineLen
         THEN ChunksFrom(lines, i + 1, chunks, Append(current_chunk, lines[i]))
    ELSE IF current_chunk # <<>>
         THEN ChunksFrom(lines, i + 1, chunks \o KeptChunk(current_chunk), <<>>)
    ELSE ChunksFrom(lines, i + 1, chunks, current_chunk)

Chunks(lines) == ChunksFrom(lines, 1, <<>>, <<>>)

DigitChars == <<"0","1","2","3","4","5","6","7","8","9">>

\* str(n), n >= 0
RECURSIVE IntToChars(_)
IntToChars(n) ==
    IF n < 10 THEN <<DigitChars[n + 1]>>
    ELSE IntToChars(n \div 10) \o <<DigitChars[(n % 10) + 1]>>

Section == <<"S","e","c","t","i","o","n",SP>>

\* f"Section {i+1}: {title}", i counted from 1 here
SectionName(i, chunk) ==
    Section \o IntToChars(i) \o <<":", SP>>
        \o Prefix(Strip(Split(chunk, ".")[1]), TitleLen)

\* Strategy 3: one record for each of the first chunks
Strategy3(lines) ==
    LET first == Prefix(Chunks(lines), MaxChunks)
    IN [i \in DOMAIN first |->
           (ProjectName :> SectionName(i, first[i])) @@ (ProjectDescription :> first[i])]

FullDocumentAnalysis == <<"F","u","l","l",SP,"D","o","c","u","m","e","n","t",SP,"A","n","a","l","y","s","i","s",SP,"-",SP>>

\* the description of the fallback record with the whole text, not cut
FallbackWholeText(pdf_text, pdf_filename) ==
    <<(ProjectName :> FullDocumentAnalysis \o pdf_filename)
        @@ (ProjectDescription :> pdf_text)>>

\* lines 216-219
Fallback(pdf_text, pdf_filename) ==
    <<(ProjectName :> FullDocumentAnalysis \o pdf_filename)
        @@ (ProjectDescription :> Prefix(pdf_text, FallbackLen))>>

\* a later stage that runs whatever the earlier ones found
Always(projects) == TRUE

\* if not projects: of lines 162, 184 and 215
NotProjects(projects) == projects = <<>>

\* pd.DataFrame(projects): the columns are the keys of all the records, a
\* record without a key holds NaN in its column
DataFrame(projects) ==
    LET columns == UNION {DOMAIN projects[i] : i \in DOMAIN projects}
    IN [columns |-> columns,
        rows |-> [i \in DOMAIN projects |->
                    [c \in columns |->
                        IF c \in DOMAIN projects[i] THEN projects[i][c] ELSE NaN]]]

\* df.empty
Empty(df) == df.rows = <<>> \/ df.columns = {}

\* parse_pdf_to_dataframe, with the number of records each stage appended
ParseTrace(pdf_text, pdf_filename) ==
    LET lines  == Lines(pdf_text)
        s1     == Strategy1(lines)
        s2     == IF NotProjects(s1) THEN Strategy2(lines) ELSE <<>>
        after2 == s1 \o s2
        s3     == IF NotProjects(after2) THEN Strategy3(lines) ELSE <<>>
        after3 == after2 \o s3
        fb     == IF NotProjects(after3) THEN Fallback(pdf_text, pdf_filename) ELSE <<>>
        projects == IF NotProjects(after3) THEN fb ELSE after3
    IN [projects |-> projects,
        from1 |-> Len(s1), from2 |-> Len(s2), from3 |-> Len(s3), fallback |-> Len(fb),
        df |-> DataFrame(projects)]

parse_pdf_to_dataframe(pdf_text, pdf_filename) == ParseTrace(pdf_text, pdf_filename).df

(***************************************************************************)
(* RecordEnricher: process_dataframe; process_single_pdf                   *)
(***************************************************************************)
KeywordsInName        == "Keywords Found in Project Name"
KeywordsInDescription == "Keywords Found in Project Description"
NoneMarker == <<"N","o","n","e">>

\* lambda x: ', '.join(self.find_keywords_in_text(x))
\*           if self.find_keywords_in_text(x) else 'None'
KeywordColumn(kws, x) ==
    IF find_keywords_in_text(kws, x) # <<>>
    THEN Join(find_keywords_in_text(kws, x), <<",", SP>>)
    ELSE NoneMarker

process_dataframe(kws, df) ==
    IF ProjectName \notin df.columns THEN df
    ELSE IF ProjectDescription \notin df.columns THEN df
    ELSE [columns |-> df.columns \cup {KeywordsInName, KeywordsInDescription},
          rows |-> [i \in DOMAIN df.rows |->
                      (KeywordsInName :> KeywordColumn(kws, df.rows[i][ProjectName]))
                      @@ (KeywordsInDescription :>
                              KeywordColumn(kws, df.rows[i][ProjectDescription]))
                      @@ df.rows[i]]]

Unused == <<>>

\* a PDF file: its base name, whether PyPDF2 can read it, the text of each page
Pdf(name, pages) == [name |-> name, readable |-> TRUE, pages |-> pages]
UnreadablePdf(name) == [name |-> name, readable |-> FALSE, pages |-> <<>>]

RECURSIVE PagesText(_)
PagesText(pages) ==
    IF pages = <<>> THEN <<>>
    ELSE PagesText(SubSeq(pages, 1, Len(pages) - 1)) \o pages[Len(pages)] \o <<NL>>

\* the text of every page, each followed by a newline; "" when reading fails
extract_text_from_pdf(pdf) == IF pdf.readable THEN PagesText(pdf.pages) ELSE <<>>

\* len(processed_df[processed_df[column] != 'None'])
Matches(df, column) ==
    Cardinality({i \in DOMAIN df.rows : df.rows[i][column] # NoneMarker})

\* lines 248-315: the statistics, which read the two keyword columns, then the
\* output files; disk_ok: the output files can be written
Report(enriched, disk_ok) ==
    IF {KeywordsInName, KeywordsInDescription} \ enriched.columns # {}
    THEN [returned |-> "KeyError", processed_df |-> enriched, wrote |-> FALSE]
    ELSE IF ~disk_ok
    THEN [returned |-> "OSError", processed_df |-> enriched, wrote |-> FALSE]
    ELSE [returned |-> "True", processed_df |-> enriched, wrote |-> TRUE,
          name_matches |-> Matches(enriched, KeywordsInName),
          desc_matches |-> Matches(enriched, KeywordsInDescription)]

\* lines 239-246
Enrich(df, kws, disk_ok) ==
    IF Empty(df)
    THEN [returned |-> "False", processed_df |-> Unused, wrote |-> FALSE]
    ELSE Report(process_dataframe(kws, df), disk_ok)

\* lines 232-237
ParseAndEnrich(pdf_text, pdf_filename, kws, disk_ok) ==
    IF Strip(pdf_text) = <<>>
    THEN [returned |-> "False", processed_df |-> Unused, wrote |-> FALSE]
    ELSE Enrich(parse_pdf_to_dataframe(pdf_text, pdf_filename), kws, disk_ok)

\* process_single_pdf: what it returns or raises, the frame it enriched and
\* whether it wrote the output files
process_single_pdf(pdf, kws, disk_ok) ==
    ParseAndEnrich(extract_text_from_pdf(pdf), pdf.name, kws, disk_ok)

Raised(r) == r \notin {"True", "False"}

(***************************************************************************)
(* main                                                                    *)
(***************************************************************************)
\* main goes on whatever was loaded
NeverExit(kws) == FALSE

\* if not filter_instance.keywords: ... return
NoKeywords(kws) == kws = <<>>

\* no except clause: the error leaves the loop and main
ExceptionPropagates == "raised"

\* except Exception as e: print(...), and the loop goes on
AfterException == "loop"

(***************************************************************************)
(* Inputs                                                                  *)
(***************************************************************************)
MaxNormLen  == 3    \* longest string handed to _normalize_text
MaxTextLen  == 3    \* longest generated text handed to find_keywords_in_text
MaxKeywords == 3    \* most lines of a generated keyword file

Strings(alphabet, n) == UNION {[1..k -> alphabet] : k \in 0..n}

MaxLines    == 3    \* most lines of a generated document text

\* "Project: Dairy Farm", "Description: Improving cattle health."
ProjectDairyFarm == <<"P","r","o","j","e","c","t",":",SP,"D","a","i","r","y",SP,"F","a","r","m">>
DescriptionCattle == <<"D","e","s","c","r","i","p","t","i","o","n",":",SP,"I","m","p","r","o","v","i","n","g",SP,"c","a","t","t","l","e",SP,"h","e","a","l","t","h",".">>
HeaderProjectTitle == <<"P","r","o","j","e","c","t",SP,"T","i","t","l","e">>
RowDairyCattle == <<"D","a","i","r","y",SP,"c","a","t","t","l","e",SP,"f","a","r","m">>
SingleToken == <<"c","a","t","t","l","e">>
BudgetLine == <<"B","u","d","g","e","t",":",SP,"5">>
BlankLine == <<SP, SP>>
\* a line one character longer than MinLineLen
SubstantialLine == [i \in 1..(MinLineLen + 1) |-> "x"]
\* lines of 40 characters, more than FallbackLen characters in all
LongText == [i \in 1..(FallbackLen + 50) |-> IF i % 41 = 0 THEN NL ELSE "y"]
\* a line of 40 characters five times
ScenarioC == [i \in 1..204 |-> IF i % 41 = 0 THEN NL ELSE "z"]

LinePool == {ProjectDairyFarm, DescriptionCattle, HeaderProjectTitle, RowDairyCattle,
             SingleToken, BudgetLine, BlankLine, SubstantialLine}
ParseTexts == {Join(ls, <<NL>>) : ls \in Strings(LinePool, MaxLines)}
                 \cup {LongText, ScenarioC}



NormAlphabet == {"a", SP, NL, NBSP, FIGSP, THINSP, HAIRSP, EACUTE, ACUTE, CACUTE, CCEDIL}
NormInputs == Strings(NormAlphabet, MaxNormLen) \cup {NaN}

Cattle == <<"c","a","t","t","l","e">>
\* "Cattle farming", "cattle.", "cattleship", "wildcattle"
CattleFarming == <<"C","a","t","t","l","e",SP,"f","a","r","m","i","n","g">>
CattleDot     == Cattle \o <<".">>
Cattleship    == Cattle \o <<"s","h","i","p">>
Wildcattle    == <<"w","i","l","d">> \o Cattle

KeywordLinePool == {<<"a">>, <<"A", SP>>, <<"a", "+">>, <<SP>>}
KeywordFiles ==
    {File(l) : l \in Strings(KeywordLinePool, MaxKeywords)}
        \cup {AbsentFile, File(<<Cattle>>), File(<<<<"+", "a">>>>)}

FindTexts == Strings({"a", "A", "+", SP}, MaxTextLen)
                \cup {CattleFarming, CattleDot, Cattleship, Wildcattle}

MaxDocLines == 2    \* most lines of a document handed to process_single_pdf
MaxDocs     == 2    \* most documents of a batch

Dairy == <<"d","a","i","r","y">>
\* "Title: none"
TitleNone == <<"T","i","t","l","e",":",SP,"n","o","n","e">>
DocLinePool == {ProjectDairyFarm, DescriptionCattle, RowDairyCattle, TitleNone, BlankLine}
APdf == <<"a",".","p","d","f">>
BPdf == <<"b",".","p","d","f">>
SingleDocs ==
    {Pdf(APdf, <<Join(ls, <<NL>>)>>) : ls \in Strings(DocLinePool, MaxDocLines)}
        \cup {UnreadablePdf(APdf), Pdf(APdf, <<>>), Pdf(APdf, <<ScenarioC>>)}
SingleKeywordFiles ==
    {AbsentFile, File(<<Dairy, Cattle>>), File(<<Cattle, <<"D","a","i","r","y",SP>>, <<"N","O","N","E">>>>)}

\* a document PyPDF2 cannot read, one with a name label only, the document of
\* scenario A, and one without labels
BatchDocs ==
    {UnreadablePdf(APdf),
     Pdf(BPdf, <<ProjectDairyFarm>>),
     Pdf(APdf, <<Join(<<ProjectDairyFarm, DescriptionCattle>>, <<NL>>)>>),
     Pdf(BPdf, <<RowDairyCattle>>)}
BatchKeywordFiles == {AbsentFile, File(<<BlankLine, <<>>>>), File(<<Dairy, Cattle>>)}


(***************************************************************************)
(* _normalize_text called on a string, then on its own result              *)
(***************************************************************************)
InitNormalize ==
    /\ pc = "call"
    /\ text \in NormInputs
    /\ result = Unused /\ result2 = Unused
    /\ keywords_file = AbsentFile /\ keywords = <<>>
    /\ doc_text = Unused /\ doc_name = Unused /\ parsed = Unused
    /\ pdf_files = <<>> /\ idx = 0 /\ processed_count = 0
    /\ attempted = <<>> /\ returned = <<>> /\ processed_df = Unused /\ outputs = {}

NormalizeOnce ==
    /\ pc = "call"
    /\ result' = _normalize_text(text)
    /\ pc' = "once"
    /\ UNCHANGED <<keywords_file, keywords, text, result2, doc_text,
                   doc_name, parsed, processed_df, returned, pdf_files, idx,
                   processed_count, attempted, outputs>>

NormalizeTwice ==
    /\ pc = "once"
    /\ result2' = _normalize_text(result)
    /\ pc' = "twice"
    /\ UNCHANGED <<keywords_file, keywords, text, result, doc_text, doc_name,
                   parsed, processed_df, returned, pdf_files, idx,
                   processed_count, attempted, outputs>>

NextNormalize == NormalizeOnce \/ NormalizeTwice

SpecNormalize == InitNormalize /\ [][NextNormalize]_vars

HasStrayWhitespace(s) ==
    \/ s # <<>> /\ (IsSpace(s[1]) \/ IsSpace(s[Len(s)]))
    \/ \E i \in 1..(Len(s) - 1) : IsSpace(s[i]) /\ IsSpace(s[i + 1])

\* C7: _normalize_text is idempotent, normalize(normalize(s)) = normalize(s) for
\* every s, and its result has no leading or trailing whitespace and no two
\* adjacent whitespace characters.
C7_NormalizeIdempotent ==
    /\ pc \in {"once", "twice"} => ~HasStrayWhitespace(result)
    /\ pc = "twice" => result2 = result

\* a string mixing a Unicode space, an accented character and a newline has
\* been normalised twice, and normalising changed it
C7_Witness ==
    /\ pc = "twice"
    /\ {EACUTE, NL} \subseteq Range(text)
    /\ Range(text) \cap {NBSP, FIGSP, THINSP, HAIRSP} # {}
    /\ result = <<"e", CACUTE>>
    /\ result2 = result

(***************************************************************************)
(* A filter built from a keyword file, find_keywords_in_text called twice  *)
(***************************************************************************)
InitFind ==
    /\ pc = "new"
    /\ keywords_file \in KeywordFiles
    /\ text \in FindTexts
    /\ keywords = <<>>
    /\ result = Unused /\ result2 = Unused
    /\ doc_text = Unused /\ doc_name = Unused /\ parsed = Unused
    /\ pdf_files = <<>> /\ idx = 0 /\ processed_count = 0
    /\ attempted = <<>> /\ returned = <<>> /\ processed_df = Unused /\ outputs = {}

\* LivestockProjectFilter.__init__
Construct ==
    /\ pc = "new"
    /\ keywords' = _load_keywords(keywords_file)
    /\ pc' = "call"
    /\ UNCHANGED <<keywords_file, text, result, result2, doc_text, doc_name,
                   parsed, processed_df, returned, pdf_files, idx,
                   processed_count, attempted, outputs>>

FindOnce ==
    /\ pc = "call"
    /\ result' = find_keywords_in_text(keywords, text)
    /\ pc' = "once"
    /\ UNCHANGED <<keywords_file, keywords, text, result2, doc_text,
                   doc_name, parsed, processed_df, returned, pdf_files, idx,
                   processed_count, attempted, outputs>>

FindTwice ==
    /\ pc = "once"
    /\ result2' = find_keywords_in_text(keywords, text)
    /\ pc' = "twice"
    /\ UNCHANGED <<keywords_file, keywords, text, result, doc_text, doc_name,
                   parsed, processed_df, returned, pdf_files, idx,
                   processed_count, attempted, outputs>>

NextFind == Construct \/ FindOnce \/ FindTwice

SpecFind == InitFind /\ [][NextFind]_vars

FirstIndex(s, x) == CHOOSE i \in DOMAIN s : s[i] = x /\ \A j \in 1..(i - 1) : s[j] # x

\* C5: find_keywords_in_text returns a duplicate-free list of keywords of the
\* keyword sequence, in the order of their first position in that sequence,
\* and a second call on the same text returns the same list.
C5_FindOrderedDeduplicated ==
    pc \in {"once", "twice"} =>
        /\ \A i, j \in DOMAIN result : i # j => result[i] # result[j]
        /\ \A i \in DOMAIN result : result[i] \in Range(keywords)
        /\ \A i, j \in DOMAIN result :
               i < j => FirstIndex(keywords, result[i]) < FirstIndex(keywords, result[j])
        /\ pc = "twice" => result2 = result

\* a keyword sequence with a repeated entry, two keywords found and returned
\* in sequence order, which is not alphabetical order
C5_Witness ==
    /\ pc = "twice"
    /\ keywords = << <<"a", "+">>, <<"a">>, <<"a">> >>
    /\ text = <<"a", "+", "a">>
    /\ result = << <<"a", "+">>, <<"a">> >>

\* k occurs in s, compared case-insensitively, with a non-word character or
\* the string boundary on each side
OccursFlanked(s, k) ==
    \E i \in 1..(Len(s) - Len(k) + 1) :
        /\ \A n \in 1..Len(k) : LowerChar(s[i + n - 1]) = LowerChar(k[n])
        /\ i = 1 \/ ~IsWord(s[i - 1])
        /\ i + Len(k) > Len(s) \/ ~IsWord(s[i + Len(k)])

\* C6: every keyword k, also one that begins or ends with a non-word
\* character, is reported exactly when the normalised text contains k,
\* compared case-insensitively, flanked on each side by a non-word character
\* or the string boundary.
C6_ReportedIffFlanked ==
    pc = "once" =>
        \A i \in DOMAIN keywords :
            keywords[i] \in Range(result)
                <=> OccursFlanked(_normalize_text(text), keywords[i])

\* the same for the keywords that begin and end with a word character
C6_WordEdgedKeywords ==
    pc = "once" =>
        \A i \in DOMAIN keywords :
            IsWord(keywords[i][1]) /\ IsWord(keywords[i][Len(keywords[i])]) =>
                (keywords[i] \in Range(result)
                    <=> OccursFlanked(_normalize_text(text), keywords[i]))

(***************************************************************************)
(* parse_pdf_to_dataframe called on a document text                        *)
(***************************************************************************)
InitParse ==
    /\ pc = "call"
    /\ doc_text \in ParseTexts
    /\ doc_name \in {APdf, BPdf}
    /\ parsed = Unused
    /\ keywords_file = AbsentFile /\ keywords = <<>>
    /\ text = Unused /\ result = Unused /\ result2 = Unused
    /\ pdf_files = <<>> /\ idx = 0 /\ processed_count = 0
    /\ attempted = <<>> /\ returned = <<>> /\ processed_df = Unused /\ outputs = {}

Parse ==
    /\ pc = "call"
    /\ parsed' = ParseTrace(doc_text, doc_name)
    /\ pc' = "parsed"
    /\ UNCHANGED <<keywords_file, keywords, text, result, result2, doc_text,
                   doc_name, pdf_files, idx, processed_count, attempted,
                   returned, processed_df, outputs>>

NextParse == Parse

SpecParse == InitParse /\ [][NextParse]_vars

HasNameLabel(t) == \E p \in NamePatterns : Contains(Lower(t), p)

HasHeaderLine(t) == \E i \in DOMAIN Split(t, NL) : IsHeader(Split(t, NL)[i])

\* C1: the strategies run in strict order: Strategy 2 contributes records only
\* if Strategy 1 produced none, Strategy 3 only if Strategies 1 and 2 produced
\* none, the fallback only if all three produced none; and for an input with
\* a name label and a table-like header every record is Strategy 1's.
C1_StrictOrder ==
    pc = "parsed" =>
        /\ parsed.from2 > 0 => parsed.from1 = 0
        /\ parsed.from3 > 0 => parsed.from1 = 0 /\ parsed.from2 = 0
        /\ parsed.fallback > 0 =>
               parsed.from1 = 0 /\ parsed.from2 = 0 /\ parsed.from3 = 0
        /\ HasNameLabel(doc_text) /\ HasHeaderLine(doc_text) =>
               /\ parsed.from1 >= 1
               /\ Len(parsed.projects) = parsed.from1
               /\ parsed.from2 = 0 /\ parsed.from3 = 0 /\ parsed.fallback = 0

\* a text whose first line is a table header with no name label and whose
\* second line is a name label with two tokens, which Strategy 2 would take
\* as a row: Strategy 1 alone produced the one record
C1_Witness ==
    /\ pc = "parsed"
    /\ Len(Lines(doc_text)) >= 2
    /\ IsHeader(Lines(doc_text)[1]) /\ ~AnyIn(NamePatterns, Lines(doc_text)[1])
    /\ AnyIn(NamePatterns, Lines(doc_text)[2])
    /\ Strategy2(Lines(doc_text)) # <<>>
    /\ parsed.from1 = 1 /\ parsed.from2 = 0 /\ Len(parsed.projects) = 1

\* C2: a text with a non-whitespace character yields at least one record; and
\* when Strategies 1, 2 and 3 all yield none the result is exactly one record
\* whose name contains the document's label and whose description is exactly
\* the first 2000 characters of the raw text.
C2_FallbackComplete ==
    pc = "parsed" =>
        /\ (\E i \in DOMAIN doc_text : ~IsSpace(doc_text[i])) =>
               Len(parsed.projects) >= 1
        /\ parsed.from1 = 0 /\ parsed.from2 = 0 /\ parsed.from3 = 0 =>
               /\ Len(parsed.projects) = 1
               /\ DOMAIN parsed.projects[1] = {ProjectName, ProjectDescription}
               /\ Contains(parsed.projects[1][ProjectName], doc_name)
               /\ LET d == parsed.projects[1][ProjectDescription]
                  IN /\ Len(d) = Min(Len(doc_text), FallbackLen)
                     /\ \A i \in DOMAIN d : d[i] = doc_text[i]

\* the fallback fired on a text longer than 2000 characters and cut it
C2_Witness ==
    /\ pc = "parsed"
    /\ parsed.fallback = 1
    /\ Len(doc_text) > FallbackLen
    /\ Len(parsed.projects[1][ProjectDescription]) = FallbackLen

\* C3: for an empty or whitespace-only text the extractor returns no record:
\* the fallback does not fire.
C3_BlankTextNoRecord ==
    pc = "parsed" /\ Strip(doc_text) = <<>> =>
        parsed.projects = <<>> /\ parsed.fallback = 0

(***************************************************************************)
(* process_single_pdf called on one document with a filter of any keywords *)
(***************************************************************************)
InitSingle ==
    /\ pc = "new"
    /\ keywords_file \in SingleKeywordFiles
    /\ pdf_files \in {<<d>> : d \in SingleDocs}
    /\ keywords = <<>>
    /\ text = Unused /\ result = Unused /\ result2 = Unused
    /\ doc_text = Unused /\ doc_name = Unused /\ parsed = Unused
    /\ idx = 0 /\ processed_count = 0
    /\ attempted = <<>> /\ returned = <<>> /\ processed_df = Unused /\ outputs = {}

ProcessSinglePdf ==
    /\ pc = "call"
    /\ \E disk_ok \in BOOLEAN :
         \E r \in {process_single_pdf(pdf_files[1], keywords, disk_ok)} :
            /\ attempted' = <<1>>
            /\ returned' = <<r.returned>>
            /\ processed_df' = r.processed_df
            /\ outputs' = IF r.wrote THEN {1} ELSE {}
    /\ pc' = "processed"
    /\ UNCHANGED <<keywords_file, keywords, text, result, result2, doc_text,
                   doc_name, parsed, pdf_files, idx, processed_count>>

NextSingle == Construct \/ ProcessSinglePdf

SpecSingle == InitSingle /\ [][NextSingle]_vars

\* the value a row holds in a column, NaN when the frame lacks the column
Field(row, c) == IF c \in DOMAIN row THEN row[c] ELSE NaN

\* C4: enrichment is total: for every record sequence the extractor returns,
\* also one from Strategy 1 whose records have a name but no description,
\* process_dataframe gives every record both keyword columns, and the
\* statistics step that follows ends without an error.
C4_EnrichmentTotal ==
    pc = "processed" /\ processed_df # Unused =>
        /\ \A i \in DOMAIN processed_df.rows :
               {KeywordsInName, KeywordsInDescription}
                   \subseteq DOMAIN processed_df.rows[i]
        /\ returned[1] # "KeyError"

\* column holds 'None' exactly when no keyword is found in x, and otherwise
\* the found keywords joined in keyword-sequence order
TwoState(row, column, kws, x) ==
    /\ column \in DOMAIN row
    /\ row[column] = NoneMarker <=> find_keywords_in_text(kws, x) = <<>>
    /\ find_keywords_in_text(kws, x) # <<>> =>
           row[column] = Join(find_keywords_in_text(kws, x), <<",", SP>>)

\* C8: for every record each of the two keyword columns is 'None' exactly
\* when find_keywords_in_text returns an empty list for that field and is
\* otherwise the found keywords joined by commas; with an empty keyword set
\* every record's two columns are 'None' and no error occurs.
C8_TwoStateColumns ==
    pc = "processed" /\ processed_df # Unused =>
        \A i \in DOMAIN processed_df.rows :
            /\ TwoState(processed_df.rows[i], KeywordsInName, keywords,
                        Field(processed_df.rows[i], ProjectName))
            /\ TwoState(processed_df.rows[i], KeywordsInDescription, keywords,
                        Field(processed_df.rows[i], ProjectDescription))
            /\ keywords = <<>> => returned[1] # "KeyError"

\* the same for the frames in which some record has a description
C8_FramesWithDescription ==
    pc = "processed" /\ processed_df # Unused
        /\ ProjectDescription \in processed_df.columns =>
        \A i \in DOMAIN processed_df.rows :
            /\ TwoState(processed_df.rows[i], KeywordsInName, keywords,
                        processed_df.rows[i][ProjectName])
            /\ TwoState(processed_df.rows[i], KeywordsInDescription, keywords,
                        processed_df.rows[i][ProjectDescription])
            /\ returned[1] # "KeyError"

(***************************************************************************)
(* main: the filter is built, then the loop over the documents found       *)
(***************************************************************************)
Init ==
    /\ pc = "start"
    /\ keywords_file \in BatchKeywordFiles
    /\ pdf_files \in Strings(BatchDocs, MaxDocs)
    /\ keywords = <<>>
    /\ text = Unused /\ result = Unused /\ result2 = Unused
    /\ doc_text = Unused /\ doc_name = Unused /\ parsed = Unused
    /\ idx = 0 /\ processed_count = 0
    /\ attempted = <<>> /\ returned = <<>> /\ processed_df = Unused /\ outputs = {}

\* lines 332-367: the filter is built; main returns when no keyword was
\* loaded or no document was found
MainStart ==
    /\ pc = "start"
    /\ keywords' = _load_keywords(keywords_file)
    /\ pc' = IF NoKeywords(keywords') THEN "exited"
             ELSE IF pdf_files = <<>> THEN "exited" ELSE "loop"
    /\ UNCHANGED <<keywords_file, text, result, result2, doc_text, doc_name,
                   parsed, pdf_files, idx, processed_count, attempted, returned,
                   processed_df, outputs>>

\* one turn of the loop of lines 368-373
MainProcess ==
    /\ pc = "loop"
    /\ idx < Len(pdf_files)
    /\ \E disk_ok \in BOOLEAN :
         \E r \in {process_single_pdf(pdf_files[idx + 1], keywords, disk_ok)} :
            /\ attempted' = Append(attempted, idx + 1)
            /\ returned' = Append(returned, r.returned)
            /\ processed_df' = r.processed_df
            /\ outputs' = IF r.wrote THEN outputs \cup {idx + 1} ELSE outputs
            /\ processed_count' =
                   IF r.returned = "True" THEN processed_count + 1 ELSE processed_count
            /\ pc' = IF Raised(r.returned) THEN AfterException ELSE "loop"
    /\ idx' = idx + 1
    /\ UNCHANGED <<keywords_file, keywords, text, result, result2, doc_text,
                   doc_name, parsed, pdf_files>>

\* lines 375-383: the loop is over, the counts are reported
MainReport ==
    /\ pc = "loop"
    /\ idx = Len(pdf_files)
    /\ pc' = "done"
    /\ UNCHANGED <<keywords_file, keywords, text, result, result2, doc_text,
                   doc_name, parsed, pdf_files, idx, processed_count, attempted,
                   returned, processed_df, outputs>>

Next == MainStart \/ MainProcess \/ MainReport

Spec == Init /\ [][Next]_vars

\* C9: when the keyword source is missing or yields no keyword, main aborts
\* before processing: no document is read, process_single_pdf is never
\* called and no output file is written.
C9_NoKeywordsNoProcessing ==
    _load_keywords(keywords_file) = <<>> =>
        /\ pc \in {"start", "exited"}
        /\ idx = 0 /\ attempted = <<>> /\ returned = <<>> /\ outputs = {}

\* main has returned on a keyword file of blank lines with documents waiting
C9_Witness ==
    /\ pc = "exited"
    /\ keywords_file.exists /\ keywords_file.lines # <<>>
    /\ keywords = <<>>
    /\ pdf_files # <<>>
    /\ attempted = <<>> /\ outputs = {}

\* C10: every document of the list is attempted exactly once, in list order,
\* whether or not an earlier one failed (no text, no records, an exception);
\* the loop ends only after the last document, and the success count is the
\* number of documents whose processing returned success.
C10_EveryDocumentAttempted ==
    /\ attempted = [i \in 1..idx |-> i]
    /\ Len(returned) = idx
    /\ processed_count = Cardinality({i \in DOMAIN returned : returned[i] = "True"})
    /\ pc \notin {"start", "exited", "loop"} => idx = Len(pdf_files)

\* the first document raised, the second was still processed and succeeded
C10_Witness ==
    /\ pc = "done"
    /\ Len(pdf_files) = 2
    /\ returned = <<"KeyError", "True">>
    /\ attempted = <<1, 2>>
    /\ processed_count = 1

(***************************************************************************)
(* parse_pdf_to_dataframe called on a text of labelled lines               *)
(***************************************************************************)
MaxLabelLines == 3    \* most lines of a generated text of labelled lines

\* "Project: A", "Description: d", "Summary: s", "Project Name: B", "more",
\* "See subproject: X", "Note: the summary: Y"
ProjectA      == <<"P","r","o","j","e","c","t",":",SP,"A">>
DescriptionD  == <<"D","e","s","c","r","i","p","t","i","o","n",":",SP,"d">>
SummaryS      == <<"S","u","m","m","a","r","y",":",SP,"s">>
ProjectNameB  == <<"P","r","o","j","e","c","t",SP,"N","a","m","e",":",SP,"B">>
More          == <<"m","o","r","e">>
SeeSubproject == <<"S","e","e",SP,"s","u","b","p","r","o","j","e","c","t",":",SP,"X">>
NoteSummary   == <<"N","o","t","e",":",SP,"t","h","e",SP,"s","u","m","m","a","r","y",":",SP,"Y">>

LabelLinePool == {ProjectA, DescriptionD, SummaryS, ProjectNameB, BudgetLine, More,
                  SeeSubproject, NoteSummary}
LabelTexts == {Join(ls, <<NL>>) : ls \in Strings(LabelLinePool, MaxLabelLines)}
                 \cup {Join(<<ProjectDairyFarm, DescriptionCattle>>, <<NL>>)}

InitLabels ==
    /\ pc = "call"
    /\ doc_text \in LabelTexts
    /\ doc_name \in {APdf, BPdf}
    /\ parsed = Unused
    /\ keywords_file = AbsentFile /\ keywords = <<>>
    /\ text = Unused /\ result = Unused /\ result2 = Unused
    /\ pdf_files = <<>> /\ idx = 0 /\ processed_count = 0
    /\ attempted = <<>> /\ returned = <<>> /\ processed_df = Unused /\ outputs = {}

NextLabels == Parse

SpecLabels == InitLabels /\ [][NextLabels]_vars

\* the indexes of the lines that satisfy Test, in line order
IndexesOf(lines, Test(_)) ==
    LET At(i) == Test(lines[i])
    IN SelectSeq([i \in 1..Len(lines) |-> i], At)

\* the line carries a name label; it carries a description label and no name label
IsNameLine(line) == \E p \in NamePatterns : Contains(Lower(line), p)
IsDescriptionLine(line) ==
    /\ ~IsNameLine(line)
    /\ \E p \in DescriptionPatterns : Contains(Lower(line), p)

\* the lines of the record opened at the k-th of the name-label lines at
SpanOf(lines, at, k) ==
    {i \in DOMAIN lines :
        at[k] < i /\ i < (IF k < Len(at) THEN at[k + 1] ELSE Len(lines) + 1)}

\* the trimmed text after the first colon of a line that holds one
AfterFirstColon(line) ==
    LET c == CHOOSE i \in DOMAIN line :
                 line[i] = ":" /\ \A j \in 1..(i - 1) : line[j] # ":"
    IN Strip(SubSeq(line, c + 1, Len(line)))

Max(S) == CHOOSE x \in S : \A y \in S : y <= x

\* the stop labels: every name label, and 'budget:', 'cost:' and 'date:'
StopLabels ==
    NamePatterns \cup {<<"b","u","d","g","e","t",":">>, <<"c","o","s","t",":">>,
                       <<"d","a","t","e",":">>}

\* the text after the label of lines[i], then every later line up to, and
\* excluding, the first later line that carries a stop label
CaptureUpToStopLabel(lines, i) ==
    LET stops == {j \in (i + 1)..Len(lines) :
                     \E p \in StopLabels : Contains(Lower(lines[j]), p)}
        end   == IF stops = {} THEN Len(lines) + 1
                 ELSE CHOOSE j \in stops : \A m \in stops : j <= m
    IN Join(<<AfterFirstColon(lines[i])>> \o SubSeq(lines, i + 1, end - 1), <<SP>>)

\* C11: the description of a Strategy 1 record is the text after the label of
\* its description-label line followed by every later line up to, and
\* excluding, the first later line carrying a stop label (any name label,
\* 'budget:', 'cost:', 'date:'); so no record's description contains the line
\* that opens a later record.
C11_DescriptionStopsAtLabels ==
    pc = "parsed" /\ parsed.from1 > 0 =>
        LET lines == Lines(doc_text)
            at    == IndexesOf(lines, IsNameLine)
        IN \A k \in DOMAIN parsed.projects :
               ProjectDescription \in DOMAIN parsed.projects[k] =>
                   LET ds == {i \in SpanOf(lines, at, k) : IsDescriptionLine(lines[i])}
                   IN /\ ds # {}
                      /\ parsed.projects[k][ProjectDescription]
                             = CaptureUpToStopLabel(lines, Max(ds))
                      /\ \A m \in (k + 1)..Len(at) :
                             ~Contains(parsed.projects[k][ProjectDescription],
                                       lines[at[m]])

\* the label p is a case-insensitive prefix of the line
StartsWith(line, p) ==
    Len(p) <= Len(line) /\ SubSeq(Lower(line), 1, Len(p)) = p

StartsWithAny(line, patterns) == \E p \in patterns : StartsWith(line, p)

IsNamePrefixLine(line)        == StartsWithAny(line, NamePatterns)
IsDescriptionPrefixLine(line) == StartsWithAny(line, DescriptionPatterns)

\* the trimmed text that follows the label at the start of the line
AfterLabel(line, patterns) ==
    LET p == CHOOSE q \in patterns : StartsWith(line, q)
    IN Strip(SubSeq(line, Len(p) + 1, Len(line)))

\* C12: only a line that starts with a name label opens a Strategy 1 record,
\* and its name is the text following the label; only a line that starts with
\* a description label sets a description, which begins with the text
\* following that label. A line holding a label after its start does neither.
C12_LabelsArePrefixes ==
    pc = "parsed" =>
        LET lines == Lines(doc_text)
            at    == IndexesOf(lines, IsNamePrefixLine)
        IN /\ parsed.from1 = Len(at)
           /\ \A k \in 1..parsed.from1 :
                  /\ parsed.projects[k][ProjectName]
                         = AfterLabel(lines[at[k]], NamePatterns)
                  /\ ProjectDescription \in DOMAIN parsed.projects[k] =>
                         \E i \in SpanOf(lines, at, k) :
                             /\ IsDescriptionPrefixLine(lines[i])
                             /\ LET d == AfterLabel(lines[i], DescriptionPatterns)
                                IN d = Prefix(parsed.projects[k][ProjectDescription],
                                              Len(d))

\* "Dairy Farm", "Improving cattle health."
DairyFarm == <<"D","a","i","r","y",SP,"F","a","r","m">>
ImprovingCattleHealth == <<"I","m","p","r","o","v","i","n","g",SP,"c","a","t","t","l","e",SP,"h","e","a","l","t","h",".">>

\* C13: Strategy 1 returns exactly one record for each line carrying a name
\* label, in line order, named by the trimmed text after that line's first
\* colon: every such line appends the open record and opens the next, and the
\* last open record is appended at the end. The lines 'Project: Dairy Farm',
\* 'Description: Improving cattle health.' give exactly one record, with name
\* 'Dairy Farm' and description 'Improving cattle health.'.
C13_OneRecordPerNameLine ==
    pc = "parsed" =>
        LET lines == Lines(doc_text)
            at    == IndexesOf(lines, IsNameLine)
        IN /\ parsed.from1 = Len(at)
           /\ at # <<>> =>
                  /\ Len(parsed.projects) = Len(at)
                  /\ \A k \in DOMAIN at :
                         parsed.projects[k][ProjectName] = AfterFirstColon(lines[at[k]])
           /\ lines = <<ProjectDairyFarm, DescriptionCattle>> =>
                  parsed.projects =
                      <<(ProjectName :> DairyFarm)
                            @@ (ProjectDescription :> ImprovingCattleHealth)>>

\* three lines, two of them name labels with another line between: two
\* records, in line order
C13_Witness ==
    /\ pc = "parsed"
    /\ Len(Lines(doc_text)) = 3
    /\ IsNameLine(Lines(doc_text)[1])
    /\ ~IsNameLine(Lines(doc_text)[2])
    /\ IsNameLine(Lines(doc_text)[3])
    /\ Len(parsed.projects) = 2
    /\ parsed.projects[1][ProjectName] = <<"A">>
    /\ parsed.projects[2][ProjectName] = <<"B">>

\* the description computed at the description-label line lines[i]
ComputedAt(lines, i) == Continuation(lines, i + 1, AfterFirstColon(lines[i]))

\* C16: the description of a Strategy 1 record is the value computed at the
\* last description-label line between its name-label line and the next one,
\* whatever an earlier description-label line of the record captured; a record
\* without such a line has no description, and a description-label line before
\* the first name-label line contributes to no record.
C16_LastDescriptionWins ==
    pc = "parsed" /\ parsed.from1 > 0 =>
        LET lines == Lines(doc_text)
            at    == IndexesOf(lines, IsNameLine)
        IN \A k \in DOMAIN parsed.projects :
               LET ds == {i \in SpanOf(lines, at, k) : IsDescriptionLine(lines[i])}
               IN /\ DOMAIN parsed.projects[k] \subseteq {ProjectName, ProjectDescription}
                  /\ ProjectDescription \in DOMAIN parsed.projects[k] <=> ds # {}
                  /\ ds # {} =>
                         parsed.projects[k][ProjectDescription]
                             = ComputedAt(lines, Max(ds))

\* a record with two description-label lines: the first had absorbed the
\* second as a continuation line, the record holds what the second computed
C16_Witness ==
    /\ pc = "parsed"
    /\ parsed.from1 = 1
    /\ LET lines == Lines(doc_text)
       IN /\ Len(lines) = 3
          /\ IsNameLine(lines[1])
          /\ IsDescriptionLine(lines[2]) /\ IsDescriptionLine(lines[3])
          /\ Contains(ComputedAt(lines, 2), lines[3])
          /\ ComputedAt(lines, 2) # ComputedAt(lines, 3)
          /\ parsed.projects[1][ProjectDescription] = ComputedAt(lines, 3)

(***************************************************************************)
(* parse_pdf_to_dataframe called on a table-like text                      *)
(***************************************************************************)
MaxTableLines == 3    \* most lines of a generated table-like text

\* "Project Name list", "Beef  herd" (two spaces)
ProjectNameList == <<"P","r","o","j","e","c","t",SP,"N","a","m","e",SP,"l","i","s","t">>
BeefHerd        == <<"B","e","e","f",SP,SP,"h","e","r","d">>

TableLinePool == {HeaderProjectTitle, ProjectNameList, RowDairyCattle, BeefHerd,
                  SingleToken, ProjectA}
TableTexts == {Join(ls, <<NL>>) : ls \in Strings(TableLinePool, MaxTableLines)}

InitTable ==
    /\ pc = "call"
    /\ doc_text \in TableTexts
    /\ doc_name \in {APdf, BPdf}
    /\ parsed = Unused
    /\ keywords_file = AbsentFile /\ keywords = <<>>
    /\ text = Unused /\ result = Unused /\ result2 = Unused
    /\ pdf_files = <<>> /\ idx = 0 /\ processed_count = 0
    /\ attempted = <<>> /\ returned = <<>> /\ processed_df = Unused /\ outputs = {}

NextTable == Parse

SpecTable == InitTable /\ [][NextTable]_vars

\* the line holds 'project' and one of 'name' and 'title', in any case
HoldsProjectAndNameOrTitle(line) ==
    /\ Contains(Lower(line), PROJECT)
    /\ \E w \in {NAME, TITLE} : Contains(Lower(line), w)

\* the number of whitespace-separated tokens of the line
TokenCount(line) ==
    Cardinality({i \in DOMAIN line :
                    ~IsSpace(line[i]) /\ (i = 1 \/ IsSpace(line[i - 1]))})

\* name is the first token of the line and description the non-empty rest
\* after the whitespace that follows it
SplitsInTwo(line, name, description) ==
    LET n == Len(name)
        r == Len(line) - Len(description)
    IN /\ n >= 1 /\ n < r /\ r < Len(line)
       /\ SubSeq(line, 1, n) = name
       /\ \A i \in DOMAIN name : ~IsSpace(name[i])
       /\ \A i \in (n + 1)..r : IsSpace(line[i])
       /\ SubSeq(line, r + 1, Len(line)) = description
       /\ ~IsSpace(description[1])

\* C14: when Strategy 2 runs it yields no record if no line holds 'project'
\* with 'name' or 'title'; otherwise, with the first such line as header, it
\* yields exactly one record for each later line of at least two tokens, in
\* line order, named by the line's first token and described by the non-empty
\* rest after the first whitespace run; the lines up to the header and the
\* lines of one token yield none.
C14_TableRows ==
    pc = "parsed" /\ parsed.from1 = 0 =>
        LET lines   == Lines(doc_text)
            headers == {i \in DOMAIN lines : HoldsProjectAndNameOrTitle(lines[i])}
        IN IF headers = {} THEN parsed.from2 = 0
           ELSE LET header == CHOOSE h \in headers : \A i \in headers : h <= i
                    IsRow(i) == i > header /\ TokenCount(lines[i]) >= 2
                    rows == SelectSeq([i \in 1..Len(lines) |-> i], IsRow)
                IN /\ parsed.from2 = Len(rows)
                   /\ \A k \in DOMAIN rows :
                          /\ DOMAIN parsed.projects[k] = {ProjectName, ProjectDescription}
                          /\ SplitsInTwo(lines[rows[k]],
                                         parsed.projects[k][ProjectName],
                                         parsed.projects[k][ProjectDescription])

\* a line of three tokens before the header, a line of two tokens after it:
\* one record, of the later line, cut at its run of two spaces
C14_Witness ==
    /\ pc = "parsed"
    /\ Lines(doc_text) = <<RowDairyCattle, HeaderProjectTitle, BeefHerd>>
    /\ parsed.from1 = 0 /\ parsed.from2 = 1
    /\ parsed.projects[1][ProjectName] = <<"B","e","e","f">>
    /\ parsed.projects[1][ProjectDescription] = <<"h","e","r","d">>

(***************************************************************************)
(* parse_pdf_to_dataframe called on a text without labels or header        *)
(***************************************************************************)
MaxChunkLines == 3    \* most lines of a generated text of plain lines

\* lines of MinLineLen, MinChunkLen and MinChunkLen + 1 characters, and of one
Line50  == [i \in 1..MinLineLen |-> "a"]
Line100 == [i \in 1..MinChunkLen |-> "c"]
Line101 == [i \in 1..(MinChunkLen + 1) |-> "d"]
Short   == <<"s">>
\* MaxChunks + 2 lines of MinChunkLen + 1 characters, a short line after each
ManyChunks ==
    Join([i \in 1..(2 * (MaxChunks + 2)) |-> IF i % 2 = 1 THEN Line101 ELSE Short],
         <<NL>>)

ChunkLinePool == {Line50, SubstantialLine, Line100, Line101, Short}
ChunkTexts == {Join(ls, <<NL>>) : ls \in Strings(ChunkLinePool, MaxChunkLines)}
                 \cup {ManyChunks}

InitChunks ==
    /\ pc = "call"
    /\ doc_text \in ChunkTexts
    /\ doc_name \in {APdf, BPdf}
    /\ parsed = Unused
    /\ keywords_file = AbsentFile /\ keywords = <<>>
    /\ text = Unused /\ result = Unused /\ result2 = Unused
    /\ pdf_files = <<>> /\ idx = 0 /\ processed_count = 0
    /\ attempted = <<>> /\ returned = <<>> /\ processed_df = Unused /\ outputs = {}

NextChunks == Parse

SpecChunks == InitChunks /\ [][NextChunks]_vars

\* the maximal runs a..b of consecutive lines each longer than 50 characters
MaximalRuns(lines) ==
    LET Long(i) == Len(lines[i]) > 50
    IN {r \in (DOMAIN lines) \X (DOMAIN lines) :
           /\ r[1] <= r[2]
           /\ \A i \in r[1]..r[2] : Long(i)
           /\ r[1] = 1 \/ ~Long(r[1] - 1)
           /\ r[2] = Len(lines) \/ ~Long(r[2] + 1)}

\* the lines of a run joined by single spaces
RunText(lines, r) == Join(SubSeq(lines, r[1], r[2]), <<SP>>)

\* the runs whose joined text is longer than 100 characters
KeptRuns(lines) == {r \in MaximalRuns(lines) : Len(RunText(lines, r)) > 100}

\* the k-th kept run in document order
KthKeptRun(lines, k) ==
    CHOOSE r \in KeptRuns(lines) :
        Cardinality({q \in KeptRuns(lines) : q[1] < r[1]}) = k - 1

\* C15: when Strategy 3 runs it emits exactly one record for each of the first
\* 10 kept chunks, in document order, the k-th named 'Section k: ...' and
\* described by the whole chunk; a chunk is a maximal run of consecutive lines
\* each longer than 50 characters, kept only if its lines joined by spaces are
\* longer than 100 characters (a line of 50 characters ends a chunk, a chunk
\* of 100 characters is dropped).
C15_ChunkRecords ==
    pc = "parsed" /\ parsed.from1 = 0 /\ parsed.from2 = 0 =>
        LET lines == Lines(doc_text)
            n     == Min(Cardinality(KeptRuns(lines)), 10)
        IN /\ parsed.from3 = n
           /\ \A k \in 1..n :
                  /\ DOMAIN parsed.projects[k] = {ProjectName, ProjectDescription}
                  /\ parsed.projects[k][ProjectDescription]
                         = RunText(lines, KthKeptRun(lines, k))
                  /\ LET head == Section \o IntToChars(k) \o <<":", SP>>
                     IN Prefix(parsed.projects[k][ProjectName], Len(head)) = head

\* a text of more than 10 kept chunks: 10 records, the last is 'Section 10'
C15_Witness ==
    /\ pc = "parsed"
    /\ Cardinality(KeptRuns(Lines(doc_text))) > 10
    /\ parsed.from3 = 10 /\ Len(parsed.projects) = 10
    /\ Prefix(parsed.projects[10][ProjectName], 11)
           = Section \o <<"1", "0", ":">>
====
